---- MODULE Spec2Model ----
(***************************************************************************)
(* A model of the habits front end: the settings store (one instance per   *)
(* open tab, all sharing one localStorage entry), the habit history        *)
(* calendar with its paging and selection state, and the month and weekday *)
(* label renderers.                                                        *)
(***************************************************************************)
EXTENDS Integers, Sequences, FiniteSets, TLC

VARIABLES
    storage,        \* localStorage["habits.settings"]: {} (null) or {string}
    status,         \* per tab: "closed", "live", or "crashed" (module threw)
    startOfWeek,    \* per tab: settingsStore.startOfWeek
    pending,        \* per tab: storage events queued on its event loop
    updates,        \* calls and foreign writes issued so far
    lastOp          \* the operation that produced this state

VARIABLES
    now,            \* the instant the calendar is computed at
    habit,          \* the habit prop (its id)
    isExtraSmallScreen,
    offset,         \* useState(0)
    selectedDateKey,\* useState(null): {} (null) or {DateKey}
    data,           \* the memoised computed value: startDate and weeks
    lastCal         \* the calendar operation that produced this state

VARIABLES
    labelProps,     \* the props MonthLabels is given: startDate, totalWeeks
    monthLabels,    \* what MonthLabels rendered: {} before, then {labels}
    weekDayLabels   \* what WeekDayLabels rendered: {} before, then {labels}

storeVars == <<storage, status, startOfWeek, pending, updates, lastOp>>
calVars == <<now, habit, isExtraSmallScreen, offset, selectedDateKey, data, lastCal>>

lblVars == <<labelProps, monthLabels, weekDayLabels>>

vars == <<storeVars, calVars, lblVars>>

----------------------------------------------------------------------------
(* Bounds *)

MaxUpdates == 3

\* How far into the past the calendar is paged.
MaxOffset == 3

Tabs == {"t1", "t2"}

----------------------------------------------------------------------------
(* settingsStore.ts *)

SETTINGS_KEY == "habits.settings"

\* Another key of the same origin's localStorage.
OTHER_KEY == "habits.theme"

WeekDay == 0..6

\* A value outside WeekDay that a record written by something other than
\* saveSettings may carry.
ForeignDays == {9}

\* Numbers a JSON record of the model can carry.
Numbers == 0..9

\* A string is a sequence of tokens; a nullable string is {} or {string}.
JSONstringify(settings) ==
    <<"{", "\"startOfWeek\"", ":", ToString(settings.startOfWeek), "}">>

EmptyString == <<>>
EmptyObjectString == <<"{", "}">>
MalformedString == <<"{">>

WellFormed(str) ==
    \/ str = EmptyObjectString
    \/ /\ Len(str) = 5
       /\ str[1] = "{" /\ str[2] = "\"startOfWeek\"" /\ str[3] = ":" /\ str[5] = "}"
       /\ \E n \in Numbers : ToString(n) = str[4]

\* The object JSON.parse returns for a well-formed string: a field is {} when
\* the object lacks it (undefined), {v} otherwise.
JSONparse(str) ==
    IF Len(str) = 5
    THEN [startOfWeek |-> {CHOOSE n \in Numbers : ToString(n) = str[4]}]
    ELSE [startOfWeek |-> {}]

\* value ? ... : null  -- null and "" are falsy.
Truthy(value) == value # {} /\ value # {EmptyString}

StringOf(value) == CHOOSE str \in value : TRUE

\* loadSettings throws when the stored string does not parse.
LoadThrows(stored) == Truthy(stored) /\ ~WellFormed(StringOf(stored))

\* loadSettings(): null is {}, a settings object is {object}.
loadSettings(stored) ==
    IF Truthy(stored) THEN {JSONparse(StringOf(stored))} ELSE {}

\* savedSettings?.startOfWeek ?? 0
InitialStartOfWeek(stored) ==
    LET savedSettings == loadSettings(stored) IN
    IF savedSettings = {} THEN 0
    ELSE LET field == (CHOOSE s \in savedSettings : TRUE).startOfWeek IN
         IF field = {} THEN 0 ELSE CHOOSE v \in field : TRUE

LiveTabs == {t \in Tabs : status[t] = "live"}

StorageEvent(key, newValue) == [key |-> key, newValue |-> newValue]

\* localStorage.setItem from context `writer` (a tab, or "foreign"): the entry
\* is replaced and, when its value changed, every other open document gets a
\* storage event.
Broadcast(writer, event, q) ==
    [t \in Tabs |-> IF t # writer /\ status[t] = "live"
                    THEN Append(q[t], event) ELSE q[t]]

saveSettingsStorage(settings) == {JSONstringify(settings)}

saveSettingsPending(writer, settings, q) ==
    IF storage = saveSettingsStorage(settings) THEN q
    ELSE Broadcast(writer, StorageEvent(SETTINGS_KEY, saveSettingsStorage(settings)), q)

\* Mutant: the assignment without the autorun reaction that saves the store.
AssignWithoutSave(t, value, q) ==
    /\ startOfWeek' = [startOfWeek EXCEPT ![t] = value]
    /\ storage' = storage
    /\ pending' = q

\* An assignment to the observable startOfWeek of tab t, followed by the
\* autorun reaction: the reaction runs when the observable's value changed.
Assign(t, value, q) ==
    IF value = startOfWeek[t]
    THEN /\ startOfWeek' = startOfWeek
         /\ storage' = storage
         /\ pending' = q
    ELSE /\ startOfWeek' = [startOfWeek EXCEPT ![t] = value]
         /\ storage' = saveSettingsStorage([startOfWeek |-> value])
         /\ pending' = saveSettingsPending(t, [startOfWeek |-> value], q)

\* updateSettings({ startOfWeek }: Partial<Settings>)
updateSettings(t, partial, q) ==
    IF partial.startOfWeek # {}
    THEN Assign(t, CHOOSE v \in partial.startOfWeek : TRUE, q)
    ELSE /\ startOfWeek' = startOfWeek
         /\ storage' = storage
         /\ pending' = q

\* What the last step did: the operation, its tab, the storage event or the
\* argument it was given ({} when it has none) and the tab's startOfWeek before.
Op(name, t, event, arg, before) ==
    [op |-> name, tab |-> t, event |-> event, arg |-> arg, before |-> before]

NoEvent == StorageEvent("", {})

\* Module initialisation in tab t: loadSettings, the store's construction and
\* the autorun's first run, which saves the store at once.
ModuleInit(t) ==
    /\ lastOp' = Op("init", t, StorageEvent(SETTINGS_KEY, storage), {},
                    IF status[t] = "live" THEN {startOfWeek[t]} ELSE {})
    /\ IF LoadThrows(storage)
       THEN /\ status' = [status EXCEPT ![t] = "crashed"]
            /\ UNCHANGED <<storage, startOfWeek>>
            /\ pending' = [pending EXCEPT ![t] = <<>>]
       ELSE LET v == InitialStartOfWeek(storage) IN
            /\ status' = [status EXCEPT ![t] = "live"]
            /\ startOfWeek' = [startOfWeek EXCEPT ![t] = v]
            /\ storage' = saveSettingsStorage([startOfWeek |-> v])
            /\ pending' = saveSettingsPending(t, [startOfWeek |-> v],
                                              [pending EXCEPT ![t] = <<>>])

OpenTab(t) ==
    /\ status[t] = "closed"
    /\ ModuleInit(t)
    /\ UNCHANGED <<updates, calVars, lblVars>>

\* The page of tab t is loaded again: a fresh store instance.
Reload(t) ==
    /\ status[t] = "live"
    /\ updates < MaxUpdates
    /\ updates' = updates + 1
    /\ ModuleInit(t)
    /\ UNCHANGED <<calVars, lblVars>>

SetStartOfWeek(t, value) ==
    /\ status[t] = "live"
    /\ updates < MaxUpdates
    /\ updates' = updates + 1
    /\ Assign(t, value, pending)
    /\ lastOp' = Op("setStartOfWeek", t, NoEvent, {value}, {startOfWeek[t]})
    /\ UNCHANGED <<status, calVars, lblVars>>

UpdateSettings(t, partial) ==
    /\ status[t] = "live"
    /\ updates < MaxUpdates
    /\ updates' = updates + 1
    /\ updateSettings(t, partial, pending)
    /\ lastOp' = Op("updateSettings", t, NoEvent, partial.startOfWeek, {startOfWeek[t]})
    /\ UNCHANGED <<status, calVars, lblVars>>

\* Mutant: the listener without the test of the event's key.
StorageListenerAnyKey(t) ==
    /\ status[t] = "live"
    /\ pending[t] # <<>>
    /\ LET event == Head(pending[t])
           rest == [pending EXCEPT ![t] = Tail(pending[t])]
       IN  /\ lastOp' = Op("storage", t, event, {}, {startOfWeek[t]})
           /\ IF /\ Truthy(event.newValue)
                 /\ WellFormed(StringOf(event.newValue))
              THEN updateSettings(t, JSONparse(StringOf(event.newValue)), rest)
              ELSE /\ pending' = rest
                   /\ UNCHANGED <<storage, startOfWeek>>
    /\ UNCHANGED <<status, updates, calVars, lblVars>>

\* window.addEventListener("storage", ...): the listener of tab t handles the
\* oldest queued event.  A tab whose module threw never registered it.  A string that does not parse makes JSON.parse throw
\* inside the listener, which leaves the store as it was.
StorageListener(t) ==
    /\ status[t] = "live"
    /\ pending[t] # <<>>
    /\ LET event == Head(pending[t])
           rest == [pending EXCEPT ![t] = Tail(pending[t])]
       IN  /\ lastOp' = Op("storage", t, event, {}, {startOfWeek[t]})
           /\ IF /\ event.key = SETTINGS_KEY
                 /\ Truthy(event.newValue)
                 /\ WellFormed(StringOf(event.newValue))
              THEN updateSettings(t, JSONparse(StringOf(event.newValue)), rest)
              ELSE /\ pending' = rest
                   /\ UNCHANGED <<storage, startOfWeek>>
    /\ UNCHANGED <<status, updates, calVars, lblVars>>

\* Something else of the same origin (another script, another version of the
\* application, the developer tools) sets the entry: every open tab is told.
ForeignSetItem(str) ==
    /\ updates < MaxUpdates
    /\ updates' = updates + 1
    /\ storage # {str}
    /\ storage' = {str}
    /\ pending' = Broadcast("foreign", StorageEvent(SETTINGS_KEY, {str}), pending)
    /\ lastOp' = Op("foreignSetItem", "foreign", StorageEvent(SETTINGS_KEY, {str}), {}, {})
    /\ UNCHANGED <<status, startOfWeek, calVars, lblVars>>

\* ... removes the entry: the event's newValue is null.
ForeignRemoveItem ==
    /\ updates < MaxUpdates
    /\ updates' = updates + 1
    /\ storage # {}
    /\ storage' = {}
    /\ pending' = Broadcast("foreign", StorageEvent(SETTINGS_KEY, {}), pending)
    /\ lastOp' = Op("foreignRemoveItem", "foreign", StorageEvent(SETTINGS_KEY, {}), {}, {})
    /\ UNCHANGED <<status, startOfWeek, calVars, lblVars>>

\* ... sets another key to a record that would parse as settings.
ForeignOtherKey(str) ==
    /\ updates < MaxUpdates
    /\ updates' = updates + 1
    /\ pending' = Broadcast("foreign", StorageEvent(OTHER_KEY, {str}), pending)
    /\ lastOp' = Op("foreignOtherKey", "foreign", StorageEvent(OTHER_KEY, {str}), {}, {})
    /\ UNCHANGED <<storage, status, startOfWeek, calVars, lblVars>>

----------------------------------------------------------------------------
(* Dates.  An instant is a number of hours of local time since the midnight *)
(* that began Sunday 2023-01-01; a dayjs object and a native Date are both  *)
(* instants.  Every local day has 24 hours (no daylight-saving shift).      *)

DayOf(t) == t \div 24

\* dayjs#day(): 0 is Sunday.
WeekdayOf(t) == DayOf(t) % 7

IsLeapYear(y) == (y % 4 = 0 /\ y % 100 # 0) \/ y % 400 = 0

DaysInMonth(y, m) ==
    IF m = 2 THEN (IF IsLeapYear(y) THEN 29 ELSE 28)
    ELSE IF m \in {4, 6, 9, 11} THEN 30 ELSE 31

\* The calendar date <<year, month, day of month>> that lies n days after the
\* first of month m of year y.
RECURSIVE CivilFrom(_, _, _)
CivilFrom(y, m, n) ==
    IF n < DaysInMonth(y, m) THEN <<y, m, n + 1>>
    ELSE IF m = 12 THEN CivilFrom(y + 1, 1, n - DaysInMonth(y, m))
    ELSE CivilFrom(y, m + 1, n - DaysInMonth(y, m))

Civil(t) == CivilFrom(2023, 1, DayOf(t))

\* dayjs#date(): the day of the month.
DateOfMonth(t) == Civil(t)[3]

\* getDateKey: the YYYY-MM-DD key of the instant's calendar day.
getDateKey(t) == Civil(t)

\* dayjs#startOf("week"), the locale's week starting on Sunday.
startOfWeekOf(t) == (DayOf(t) - WeekdayOf(t)) * 24

addDays(t, n) == t + n * 24
addWeeks(t, n) == t + n * 7 * 24
subtractWeeks(t, n) == t - n * 7 * 24

\* dayjs#diff(that, "weeks"): whole weeks, truncated towards zero.
diffWeeks(this, that) ==
    IF this >= that THEN (this - that) \div (7 * 24)
    ELSE 0 - ((that - this) \div (7 * 24))

----------------------------------------------------------------------------
(* HabitHistoryCalendar *)

RECT_SIZE == 11
CELL_SPACING == 1
HEADER_SIZE == 8
CELL_SIZE == RECT_SIZE + CELL_SPACING

\* The days habits of the model have entries on, and the entries' values.
EntryDays == {d \in 40..240 : d % 3 = 1}
EntryValue(d) == d % 4

Habits ==
    [none    |-> [id |-> "none", unit |-> "pages", entries |-> <<>>],
     reading |-> [id |-> "reading", unit |-> "pages",
                  entries |-> [k \in {getDateKey(d * 24) : d \in EntryDays} |->
                                  [value |-> EntryValue(CHOOSE d \in EntryDays :
                                                            getDateKey(d * 24) = k)]]]]

\* habit.entries[dateKey]?.value ?? 0
ValueAt(h, dateKey) ==
    IF dateKey \in DOMAIN Habits[h].entries THEN Habits[h].entries[dateKey].value ELSE 0

\* The store the calendar reads is the one of its own tab.
CalendarStartOfWeek == startOfWeek["t1"]

TotalWeeksOf(xs) == IF xs THEN 12 ELSE 18

totalWeeks == TotalWeeksOf(isExtraSmallScreen)

ComputeEndDate(t, off) == subtractWeeks(t, off)

\* startDate before and after the correction of one week.
AlignedStart(endDate, tw, sow) ==
    addDays(subtractWeeks(startOfWeekOf(endDate), tw), sow)

\* Mutant: startDate without the correction of one week.
ComputeStartDateUncorrected(endDate, tw, sow) == AlignedStart(endDate, tw, sow)

ComputeStartDate(endDate, tw, sow) ==
    LET startDate == AlignedStart(endDate, tw, sow) IN
    IF diffWeeks(endDate, startDate) >= tw THEN addWeeks(startDate, 1) ELSE startDate

\* Mutant: the inner loop without its break at today.
RECURSIVE WalkDaysWithoutBreak(_, _, _, _, _, _)
WalkDaysWithoutBreak(h, nowDateKey, date, day, values, dates) ==
    IF day = 7 THEN [values |-> values, dates |-> dates, date |-> date]
    ELSE WalkDaysWithoutBreak(h, nowDateKey, addDays(date, 1), day + 1,
                              Append(values, ValueAt(h, getDateKey(date))),
                              Append(dates, date))

\* The inner loop from `day` on: the values pushed, the dates they were read
\* at, and the loop's date when it ends.  The break leaves `date` where it is.
RECURSIVE WalkDays(_, _, _, _, _, _)
WalkDays(h, nowDateKey, date, day, values, dates) ==
    IF day = 7 THEN [values |-> values, dates |-> dates, date |-> date]
    ELSE LET dateKey == getDateKey(date)
             pushed == Append(values, ValueAt(h, dateKey))
             seen == Append(dates, date)
         IN  IF dateKey = nowDateKey
             THEN [values |-> pushed, dates |-> seen, date |-> date]
             ELSE WalkDays(h, nowDateKey, addDays(date, 1), day + 1, pushed, seen)

\* The outer loop from `week` on.
RECURSIVE WalkWeeks(_, _, _, _, _, _, _)
WalkWeeks(h, nowDateKey, tw, date, week, weeks, dates) ==
    IF week = tw THEN [weeks |-> weeks, dates |-> dates]
    ELSE LET w == WalkDays(h, nowDateKey, date, 0, <<>>, <<>>) IN
         WalkWeeks(h, nowDateKey, tw, w.date, week + 1,
                   Append(weeks, w.values), Append(dates, w.dates))

\* The computed value: startDate and weeks, and beside them the date each cell
\* of weeks was read at.  dayjs() and new Date() are read one after the other
\* in the same evaluation: both are the instant t.
ComputeData(t, h, off, tw, sow) ==
    LET endDate == ComputeEndDate(t, off)
        startDate == ComputeStartDate(endDate, tw, sow)
        walk == WalkWeeks(h, getDateKey(t), tw, startDate, 0, <<>>, <<>>)
    IN  [startDate |-> startDate, weeks |-> walk.weeks, dates |-> walk.dates]

\* useMemo(..., [habit.entries, offset, totalWeeks]) over a computed that
\* also observes settingsStore.startOfWeek: the value is computed again when
\* one of them changes.
Recompute(off, xs) ==
    data' = ComputeData(now, habit, off, TotalWeeksOf(xs), CalendarStartOfWeek)

indexesToDate(d, weekIndex, dayIndex) == addDays(d.startDate, weekIndex * 7 + dayIndex)

\* The cells the grid renders: (weekIndex, dayIndex), both from 0.
Cells(d) ==
    UNION {{<<w - 1, i - 1>> : i \in 1..Len(d.weeks[w])} : w \in 1..Len(d.weeks)}

CalOp(name, before, cell) == [op |-> name, before |-> before, cell |-> cell]

shiftLeftOffset(off) == off + 1

\* Mutant: shiftRight without Math.max.
shiftRightOffsetUnfloored(off) == off - 1

shiftRightOffset(off) == IF off - 1 > 0 THEN off - 1 ELSE 0

\* shiftLeft, while the offset is below `most`.
ShiftLeft(most) ==
    /\ offset < most
    /\ offset' = shiftLeftOffset(offset)
    /\ lastCal' = CalOp("shiftLeft", offset, {})
    /\ Recompute(shiftLeftOffset(offset), isExtraSmallScreen)
    /\ UNCHANGED <<now, habit, isExtraSmallScreen, selectedDateKey, storeVars, lblVars>>

ShiftRight ==
    /\ offset' = shiftRightOffset(offset)
    /\ lastCal' = CalOp("shiftRight", offset, {})
    /\ Recompute(shiftRightOffset(offset), isExtraSmallScreen)
    /\ UNCHANGED <<now, habit, isExtraSmallScreen, selectedDateKey, storeVars, lblVars>>

\* disabled={offset === 0}
ShiftRightDisabled == offset = 0

\* The media query's answer changes.
Resize ==
    /\ isExtraSmallScreen' = ~isExtraSmallScreen
    /\ lastCal' = CalOp("resize", offset, {})
    /\ Recompute(offset, ~isExtraSmallScreen)
    /\ UNCHANGED <<now, habit, offset, selectedDateKey, storeVars, lblVars>>

selectDate(d, weekIndex, dayIndex) == {getDateKey(indexesToDate(d, weekIndex, dayIndex))}

\* onClick of one of the rendered cells.
SelectDate ==
    \E cell \in Cells(data) :
        /\ selectedDateKey' = selectDate(data, cell[1], cell[2])
        /\ lastCal' = CalOp("selectDate", offset, {cell})
        /\ UNCHANGED <<now, habit, isExtraSmallScreen, offset, data, storeVars, lblVars>>

\* selectedDateKey && <UpdateHabitProgressModal ... />: the props of the
\* mounted dialog, {} when it is not mounted.
Modal ==
    IF selectedDateKey = {} THEN {}
    ELSE LET key == CHOOSE k \in selectedDateKey : TRUE IN
         {[habitId |-> Habits[habit].id, value |-> ValueAt(habit, key),
           unit |-> Habits[habit].unit, date |-> key]}

\* onClose
CloseModal ==
    /\ selectedDateKey # {}
    /\ selectedDateKey' = {}
    /\ lastCal' = CalOp("onClose", offset, {})
    /\ UNCHANGED <<now, habit, isExtraSmallScreen, offset, data, storeVars, lblVars>>

----------------------------------------------------------------------------
(* MonthLabels and WeekDayLabels *)

MonthNames == <<"Jan", "Feb", "Mar", "Apr", "May", "Jun",
                "Jul", "Aug", "Sep", "Oct", "Nov", "Dec">>

\* dayjs#isSame(that, "month")
isSameMonth(a, b) == Civil(a)[1] = Civil(b)[1] /\ Civil(a)[2] = Civil(b)[2]

\* dayjs#format("MMM YYYY") and dayjs#format("MMM")
formatMonth(date, withYear) ==
    [month |-> MonthNames[Civil(date)[2]],
     year |-> IF withYear THEN {Civil(date)[1]} ELSE {}]

\* Mutant: the label placed at the column of nextDate.
RECURSIVE MonthLabelsAtNextColumn(_, _, _, _)
MonthLabelsAtNextColumn(date, i, tw, labels) ==
    IF i >= tw - 1 THEN labels
    ELSE LET nextDate == addDays(date, 7) IN
         MonthLabelsAtNextColumn(nextDate, i + 1, tw,
             IF ~isSameMonth(nextDate, date)
             THEN Append(labels, [y |-> HEADER_SIZE - 3,
                                  x |-> CELL_SIZE * (i + 1) + 1,
                                  key |-> Civil(date)[2] - 1,
                                  text |-> formatMonth(date, Len(labels) = 0)])
             ELSE labels)

\* The loop of MonthLabels from i on.
RECURSIVE MonthLabelsFrom(_, _, _, _)
MonthLabelsFrom(date, i, tw, labels) ==
    IF i >= tw - 1 THEN labels
    ELSE LET nextDate == addDays(date, 7) IN
         MonthLabelsFrom(nextDate, i + 1, tw,
             IF ~isSameMonth(nextDate, date)
             THEN Append(labels, [y |-> HEADER_SIZE - 3,
                                  x |-> CELL_SIZE * i + 1,
                                  key |-> Civil(date)[2] - 1,
                                  text |-> formatMonth(date, Len(labels) = 0)])
             ELSE labels)

MonthLabels(startDate, tw) == MonthLabelsFrom(startDate, 0, tw, <<>>)

Min(a, b) == IF a < b THEN a ELSE b

\* Array#slice(start, end) for start, end >= 0.
slice(array, start, end) == SubSeq(array, Min(start, Len(array)) + 1, Min(end, Len(array)))

WeekDayNames == <<"Sun", "Mon", "Tue", "Wed", "Thu", "Fri", "Sat">>

\* Mutant: the two slices joined the other way round.
RotatedWeekDaysSwapped(startIndex) ==
    slice(WeekDayNames, 0, startIndex) \o slice(WeekDayNames, startIndex, 7)

RotatedWeekDays(startIndex) ==
    slice(WeekDayNames, startIndex, 7) \o slice(WeekDayNames, 0, startIndex)

WeekDayLabels(startIndex) ==
    LET weekDays == RotatedWeekDays(startIndex) IN
    [index \in 1..Len(weekDays) |->
        [y |-> 7 + CELL_SIZE * (index - 1), key |-> weekDays[index], text |-> weekDays[index]]]

NoLabels ==
    /\ labelProps = [startDate |-> 0, totalWeeks |-> 0]
    /\ monthLabels = {}
    /\ weekDayLabels = {}

RenderMonthLabels ==
    /\ monthLabels = {}
    /\ monthLabels' = {MonthLabels(labelProps.startDate, labelProps.totalWeeks)}
    /\ UNCHANGED <<labelProps, weekDayLabels, storeVars, calVars>>

RenderWeekDayLabels ==
    /\ weekDayLabels = {}
    /\ weekDayLabels' = {WeekDayLabels(CalendarStartOfWeek)}
    /\ UNCHANGED <<labelProps, monthLabels, storeVars, calVars>>


----------------------------------------------------------------------------
(* Specifications of the calendar and the labels *)

\* Instants of seven consecutive days, at the first and the last hour.
Nows == {d * 24 + h : d \in 200..206, h \in {0, 23}}

\* The store of the calendar's tab after module initialisation from a record.
InitCalendarStore ==
    /\ \E v \in WeekDay \cup ForeignDays :
          /\ startOfWeek = [t \in Tabs |-> IF t = "t1" THEN v ELSE 0]
          /\ storage = saveSettingsStorage([startOfWeek |-> v])
          /\ lastOp = Op("init", "t1", StorageEvent(SETTINGS_KEY, storage), {}, {})
    /\ status = [t \in Tabs |-> IF t = "t1" THEN "live" ELSE "closed"]
    /\ pending = [t \in Tabs |-> <<>>]
    /\ updates = 0

InitView ==
    /\ offset = 0
    /\ selectedDateKey = {}
    /\ lastCal = CalOp("mount", 0, {})

FirstRender ==
    data = ComputeData(now, habit, offset, totalWeeks, CalendarStartOfWeek)

InitCalendar ==
    /\ InitCalendarStore
    /\ now \in Nows
    /\ habit \in DOMAIN Habits
    /\ isExtraSmallScreen \in BOOLEAN
    /\ InitView
    /\ FirstRender
    /\ NoLabels

NextCalendar == ShiftLeft(MaxOffset) \/ ShiftRight \/ Resize

SpecCalendar == InitCalendar /\ [][NextCalendar]_vars

\* The calendar with its cells clicked, on one habit at noon on a narrow
\* screen.
InitDialog ==
    /\ InitCalendarStore
    /\ now \in {d * 24 + 12 : d \in 200..206}
    /\ habit = "reading"
    /\ isExtraSmallScreen = TRUE
    /\ NoLabels
    /\ InitView
    /\ FirstRender

MaxDialogOffset == 1

NextDialog ==
    \/ ShiftLeft(MaxDialogOffset)
    \/ ShiftRight
    \/ SelectDate
    \/ CloseModal

SpecDialog == InitDialog /\ [][NextDialog]_vars

\* The windows MonthLabels is rendered for: four weeks, and the calendar's.
LabelWeeks == {4, TotalWeeksOf(TRUE), TotalWeeksOf(FALSE)}

LabelStartDays == 0..120

InitLabels ==
    /\ InitCalendarStore
    /\ now = 200 * 24
    /\ habit = "none"
    /\ isExtraSmallScreen = FALSE
    /\ InitView
    /\ data = [startDate |-> 0, weeks |-> <<>>, dates |-> <<>>]
    /\ labelProps \in [startDate : {d * 24 : d \in LabelStartDays}, totalWeeks : LabelWeeks]
    /\ monthLabels = {}
    /\ weekDayLabels = {}

NextLabels == RenderMonthLabels \/ RenderWeekDayLabels

SpecLabels == InitLabels /\ [][NextLabels]_vars

\* The calendar is not mounted while the store is looked at.
NoCalendar ==
    /\ now = 200 * 24
    /\ habit = "none"
    /\ isExtraSmallScreen = FALSE
    /\ InitView
    /\ data = [startDate |-> 0, weeks |-> <<>>, dates |-> <<>>]
    /\ NoLabels

----------------------------------------------------------------------------
(* Specifications of the store *)

\* The days the users of the multi-tab specifications pick from.
BusyDays == {2, 5}

ForeignStrings ==
    {EmptyString, EmptyObjectString, MalformedString}
    \cup {JSONstringify([startOfWeek |-> v]) : v \in ForeignDays}

\* What localStorage may hold when the first tab opens.
PersistedRecords ==
    {{}} \cup {{str} : str \in ForeignStrings}
         \cup {{JSONstringify([startOfWeek |-> v])} : v \in BusyDays}

InitStore ==
    /\ storage \in PersistedRecords
    /\ status = [t \in Tabs |-> "closed"]
    /\ startOfWeek = [t \in Tabs |-> 0]
    /\ pending = [t \in Tabs |-> <<>>]
    /\ updates = 0
    /\ lastOp = Op("none", "foreign", NoEvent, {}, {})
    /\ NoCalendar

Partials == {[startOfWeek |-> {}]} \cup {[startOfWeek |-> {v}] : v \in BusyDays}

NextTabs ==
    \/ \E t \in Tabs : OpenTab(t)
    \/ \E t \in Tabs, v \in BusyDays : SetStartOfWeek(t, v)
    \/ \E t \in Tabs, p \in Partials : UpdateSettings(t, p)
    \/ \E t \in Tabs : StorageListener(t)

NextForeign ==
    \/ \E str \in ForeignStrings : ForeignSetItem(str)
    \/ ForeignRemoveItem
    \/ \E v \in BusyDays : ForeignOtherKey(JSONstringify([startOfWeek |-> v]))

Next == NextTabs \/ NextForeign

Spec == InitStore /\ [][Next]_vars

\* The tabs alone, starting with nothing stored, every queued storage event
\* being delivered in the end.
InitFair == InitStore /\ storage = {}

FairSpec ==
    /\ InitFair
    /\ [][NextTabs]_vars
    /\ \A t \in Tabs : WF_vars(StorageListener(t))

\* One tab alone, its user picking any weekday and loading the page again.
SingleTab == "t1"

PartialsOfWeekDay == {[startOfWeek |-> {}]} \cup {[startOfWeek |-> {v}] : v \in WeekDay}

NextSingle ==
    \/ OpenTab(SingleTab)
    \/ \E v \in WeekDay : SetStartOfWeek(SingleTab, v)
    \/ \E p \in PartialsOfWeekDay : UpdateSettings(SingleTab, p)
    \/ Reload(SingleTab)

SpecSingle == InitStore /\ [][NextSingle]_vars

----------------------------------------------------------------------------
(* Claims about the settings store *)

\* No storage event is queued and every open tab holds what storage holds.
Converged ==
    \A t \in LiveTabs :
        /\ pending[t] = <<>>
        /\ storage = saveSettingsStorage([startOfWeek |-> startOfWeek[t]])

\* C1: with the users' calls bounded and every queued storage event delivered
\* in the end, the tabs reach, and stay in, a state with no queued event in
\* which every tab's startOfWeek is the value last written to storage.
C1_EventuallyConverged == <>[]Converged

\* C2: the startOfWeek of every store is one of the weekday indices 0..6.
C2_StartOfWeekIsWeekDay ==
    \A t \in LiveTabs : startOfWeek[t] \in WeekDay

\* C3: in a single tab, once setStartOfWeek(v) has returned, storage holds the
\* record of v, from which a fresh store instance starts with startOfWeek = v;
\* and the instance a reload creates has the startOfWeek the tab had.
C3_RoundTrip ==
    /\ lastOp.op = "setStartOfWeek" =>
          /\ storage = {<<"{", "\"startOfWeek\"", ":", ToString(CHOOSE v \in lastOp.arg : TRUE), "}">>}
          /\ {InitialStartOfWeek(storage)} = lastOp.arg
          /\ ~LoadThrows(storage)
    /\ (lastOp.op = "init" /\ lastOp.before # {}) =>
          /\ status[lastOp.tab] = "live"
          /\ {startOfWeek[lastOp.tab]} = lastOp.before

C3_Witness ==
    /\ lastOp.op = "init"
    /\ lastOp.before = {3}
    /\ startOfWeek[SingleTab] = 3
    /\ updates = 2

\* What a storage event carries when its new value is the record of v.
RecordOf(v) == {<<"{", "\"startOfWeek\"", ":", ToString(v), "}">>}

\* C4: a storage event for "habits.settings" whose new value is the record of
\* v makes the receiving store's startOfWeek v; an event for another key, or
\* with an empty or absent new value, leaves startOfWeek as it was.
C4_Reconciliation ==
    lastOp.op = "storage" =>
        LET e == lastOp.event
            t == lastOp.tab
        IN  /\ \A v \in Numbers :
                 (e.key = SETTINGS_KEY /\ e.newValue = RecordOf(v))
                     => startOfWeek[t] = v
            /\ (e.key # SETTINGS_KEY \/ e.newValue = {} \/ e.newValue = {EmptyString})
                     => {startOfWeek[t]} = lastOp.before

C4_Witness ==
    /\ lastOp.op = "storage"
    /\ lastOp.event = StorageEvent(SETTINGS_KEY, RecordOf(5))
    /\ lastOp.before = {2}
    /\ startOfWeek[lastOp.tab] = 5

----------------------------------------------------------------------------
(* Claims about the calendar and the labels *)

Today == DayOf(now)

LastColumn(d) == d.dates[Len(d.dates)]

\* C5: with startOfWeek s in 0..6 and today's weekday w, at offset 0 the last
\* column has ((w - s) mod 7) + 1 rows, the last of them today, so fewer than
\* seven unless today is the last day of the configured week; and at every
\* offset no cell of the grid is a date after today.
C5_NoFutureDays ==
    CalendarStartOfWeek \in WeekDay =>
        /\ offset = 0 =>
              LET rows == Len(data.weeks[Len(data.weeks)])
                  position == (WeekdayOf(now) - CalendarStartOfWeek) % 7
              IN  /\ rows = position + 1
                  /\ Len(LastColumn(data)) = rows
                  /\ DayOf(LastColumn(data)[rows]) = Today
                  /\ (WeekdayOf(now) # (CalendarStartOfWeek + 6) % 7) => rows < 7
        /\ \A w \in 1..Len(data.dates) :
              \A i \in 1..Len(data.dates[w]) : DayOf(data.dates[w][i]) <= Today

C5_Witness ==
    /\ CalendarStartOfWeek = 3
    /\ WeekdayOf(now) = 1
    /\ lastCal.op = "shiftRight"
    /\ offset = 0
    /\ Len(data.weeks[Len(data.weeks)]) = 6

\* C7: the page offset is never below 0: shiftLeft adds one, shiftRight takes
\* one away but not below 0; and the shift-right button is disabled exactly
\* when the offset is 0.
C7_PagingBounds ==
    /\ offset >= 0
    /\ ShiftRightDisabled <=> offset = 0
    /\ lastCal.op = "shiftLeft" => offset = lastCal.before + 1
    /\ lastCal.op = "shiftRight" =>
          offset = (IF lastCal.before = 0 THEN 0 ELSE lastCal.before - 1)

C7_Witness ==
    /\ lastCal.op = "shiftRight"
    /\ lastCal.before = 0
    /\ offset = 0
    /\ ShiftRightDisabled

\* C8: the dialog is mounted exactly when a date is selected; a click on the
\* rendered cell (weekIndex, dayIndex) selects the date whose value the cell
\* shows and mounts the dialog with that value; closing the dialog clears the
\* selection and unmounts it.
C8_SelectionLifecycle ==
    /\ Modal # {} <=> selectedDateKey # {}
    /\ lastCal.op = "selectDate" =>
          \A cell \in lastCal.cell :
              LET shownDate == data.dates[cell[1] + 1][cell[2] + 1]
                  shownValue == data.weeks[cell[1] + 1][cell[2] + 1]
              IN  /\ selectedDateKey = {getDateKey(shownDate)}
                  /\ \A m \in Modal : m.value = shownValue /\ m.date = getDateKey(shownDate)
    /\ lastCal.op = "onClose" => (selectedDateKey = {} /\ Modal = {})

\* The same with startOfWeek one of 0..6.
C8_WithWeekDay == CalendarStartOfWeek \in WeekDay => C8_SelectionLifecycle

\* C9: with startOfWeek s in 0..6 WeekDayLabels renders seven labels, the one
\* of row i naming weekday (s + i) mod 7.
C9_WeekDayRotation ==
    CalendarStartOfWeek \in WeekDay =>
        \A labels \in weekDayLabels :
            /\ Len(labels) = 7
            /\ \A i \in 0..6 :
                  /\ labels[i + 1].text = WeekDayNames[((CalendarStartOfWeek + i) % 7) + 1]
                  /\ labels[i + 1].y = 7 + CELL_SIZE * i

C9_Witness ==
    /\ CalendarStartOfWeek = 2
    /\ \E labels \in weekDayLabels :
          [i \in 1..7 |-> labels[i].text] = <<"Tue", "Wed", "Thu", "Fri", "Sat", "Sun", "Mon">>

\* C10: with startOfWeek s in 0..6, at every offset and for both widths,
\* startDate falls on weekday s, the window is totalWeeks consecutive weeks
\* that start on weekday s, the last of them the week holding endDate, and
\* row i of every column is a date of weekday (s + i) mod 7.
C10_WindowAlignment ==
    CalendarStartOfWeek \in WeekDay =>
        LET endDay == DayOf(ComputeEndDate(now, offset))
            startDay == DayOf(data.startDate)
        IN  /\ WeekdayOf(data.startDate) = CalendarStartOfWeek
            /\ data.startDate % 24 = 0
            /\ Len(data.weeks) = totalWeeks
            /\ startDay + 7 * (totalWeeks - 1) <= endDay
            /\ endDay <= startDay + 7 * totalWeeks - 1
            /\ \A w \in 1..Len(data.dates) :
                  \A i \in 1..Len(data.dates[w]) :
                      /\ DayOf(data.dates[w][i]) = startDay + 7 * (w - 1) + (i - 1)
                      /\ WeekdayOf(data.dates[w][i]) = (CalendarStartOfWeek + i - 1) % 7
                      /\ Len(data.weeks[w]) = Len(data.dates[w])

\* A Wednesday seen with a week that starts on Friday, paged back twice: the
\* start date is not moved on by a week.
C10_Witness ==
    /\ CalendarStartOfWeek = 5
    /\ WeekdayOf(now) = 3
    /\ offset = 2
    /\ lastCal.op = "shiftLeft"
    /\ data.startDate = AlignedStart(ComputeEndDate(now, offset), totalWeeks, 5)
    /\ Len(data.weeks) = 18

\* A window of four weeks whose week starts change month between week 1 and
\* week 2 and nowhere else.
BoundaryBetweenWeeks1And2 ==
    /\ labelProps.totalWeeks = 4
    /\ LET week(i) == addDays(labelProps.startDate, 7 * i) IN
       /\ isSameMonth(week(0), week(1))
       /\ ~isSameMonth(week(1), week(2))
       /\ isSameMonth(week(2), week(3))

\* C6 as stated: for such a window exactly one label is emitted, at the column
\* offset of week index 2.
C6_LabelAtWeek2 ==
    BoundaryBetweenWeeks1And2 =>
        \A labels \in monthLabels :
            /\ Len(labels) = 1
            /\ labels[1].x \in {CELL_SIZE * 2, CELL_SIZE * 2 + 1}

\* C6 amended: for such a window exactly one label is emitted, one unit right
\* of the column offset of week index 1, and it names the month of week 1.
C6_LabelAtWeek1 ==
    BoundaryBetweenWeeks1And2 =>
        \A labels \in monthLabels :
            /\ Len(labels) = 1
            /\ labels[1].x = CELL_SIZE * 1 + 1
            /\ labels[1].text.month =
                   MonthNames[Civil(addDays(labelProps.startDate, 7))[2]]

C6_Witness ==
    /\ BoundaryBetweenWeeks1And2
    /\ \E labels \in monthLabels : Len(labels) = 1 /\ labels[1].x = 13
====
